---- MODULE Spec2Model ----
(***************************************************************************)
(* Kernel pool (backend/kernel/manager.py), execution channel              *)
(* (backend/kernel/client.py) and execution coordinator                    *)
(* (backend/kernel/executor.py) of gpunotebook.                            *)
(*                                                                         *)
(* The backend runs on one asyncio event loop: a coroutine runs without    *)
(* interruption until it suspends.  An action below is the run of one      *)
(* coroutine from one suspension point to the next.  The suspension points *)
(* are: acquiring self._lock while it is held, awaiting the on_output      *)
(* callback, asyncio.to_thread(get_iopub_msg) and asyncio.sleep in         *)
(* stream_output.  Awaiting a coroutine of the manager that does not       *)
(* itself suspend (get_client, get_kernel, update_status) is not one.      *)
(***************************************************************************)
EXTENDS Integers, Sequences, FiniteSets, TLC

\* ---------------------------------------------------------------- bounds
\* settings.MAX_KERNELS (core/config.py:35, default 10), scaled down.
MAX_KERNELS == 2
\* number of concurrent callers (request handlers on the event loop)
NumTasks == 2
\* largest value of the clock read by datetime.utcnow()
MaxClock == 1
\* number of execute calls (execution ids uuid4() produces for the executor)
MaxExecs == 2
\* events a worker emits for one request before it reports idle
MaxEvents == 1
\* messages a kernel's IOPub channel buffers
MaxIopub == 1

\* kernel ids uuid4() produces for create_kernel
MaxIds == 3
\* kernels created while executions are followed (SpecExec)
ExecIds == 1
\* events a worker emits for one request when one caller executes (SpecSolo)
MoreEvents == 2
\* complete and inspect requests sent to one kernel
MaxAsks == 2
\* kernels created when each caller executes on a kernel of its own (SpecPair)
PairIds == 2
\* lines of a submission given to the magic processor (SpecMagic)
MaxLines == 3

Tasks == 1..NumTasks
KernelIds == 1..MaxIds

\* models/kernel.py KernelStatus
KernelStatus == {"starting", "idle", "busy", "restarting", "dead"}

VARIABLES
    kernels,            \* KernelManager._kernels: records in insertion order
    jupyter_managers,   \* keys of KernelManager._jupyter_managers
    clients,            \* keys of KernelManager._clients
    lock,               \* KernelManager._lock (asyncio.Lock)
    executions,         \* CodeExecutor._executions, by execution number
    worker,             \* per kernel id: the worker process and its channels
    iopub,              \* per kernel id: messages waiting on the IOPub channel
    now,                \* value datetime.utcnow() returns
    nextId,             \* number of kernel ids uuid4() has produced
    task,               \* per caller: the call in progress and its position
    returned            \* the call the latest step completed, and its outcome

vars == <<kernels, jupyter_managers, clients, lock, executions, worker, iopub,
          now, nextId, task, returned>>

pool == <<kernels, jupyter_managers, clients>>

\* ------------------------------------------------------- dict helpers
\* key set of self._kernels
KernelKeys(ks) == {ks[i].id : i \in DOMAIN ks}

\* self._kernels[kernel_id]
KernelOf(ks, k) == ks[CHOOSE i \in DOMAIN ks : ks[i].id = k]

\* the record is left in the dict
DelKernel_kept(ks, k) == ks

\* del self._kernels[kernel_id]
DelKernel(ks, k) == SelectSeq(ks, LAMBDA r : r.id # k)

\* Kernel(id=..., status=IDLE, ...): execution_count 0, last_activity utcnow()
NewKernel(k, t) ==
    [id |-> k, status |-> "idle", execution_count |-> 0, last_activity |-> t]

\* min(self._kernels.values(), key=lambda k: k.last_activity): the first record,
\* in dict order, whose last_activity is minimal
oldest(ks) ==
    LET i == CHOOSE i \in DOMAIN ks :
                 /\ \A j \in DOMAIN ks : ks[i].last_activity <= ks[j].last_activity
                 /\ \A j \in 1..(i-1) : ks[j].last_activity > ks[i].last_activity
    IN ks[i]

\* update_status that writes every record of the pool
update_status_all(ks, k, s, t) ==
    [i \in DOMAIN ks |-> [ks[i] EXCEPT !.status = s, !.last_activity = t]]

\* update_status that adds a record for an unknown id
update_status_create(ks, k, s, t) ==
    IF k \in KernelKeys(ks)
    THEN [i \in DOMAIN ks |->
             IF ks[i].id = k
             THEN [ks[i] EXCEPT !.status = s, !.last_activity = t]
             ELSE ks[i]]
    ELSE Append(ks, [NewKernel(k, t) EXCEPT !.status = s])

\* KernelManager.update_status: no-op for an unknown id
update_status(ks, k, s, t) ==
    [i \in DOMAIN ks |->
        IF ks[i].id = k
        THEN [ks[i] EXCEPT !.status = s, !.last_activity = t]
        ELSE ks[i]]

\* the capacity test with `>` for `>=`
AtCapacity_gt(ks) == Len(ks) > MAX_KERNELS

\* `len(self._kernels) >= settings.MAX_KERNELS`
AtCapacity(ks) == Len(ks) >= MAX_KERNELS

\* asyncio.Lock.acquire succeeds without suspending iff the lock is free and
\* nobody waits for it
LockFree(l) == ~l.locked /\ l.waiters = <<>>

\* asyncio.Lock.acquire of a caller that has to wait
Enqueue(l, t) == [l EXCEPT !.waiters = Append(@, t)]

\* ------------------------------------------------------------ workers
\* The worker process of a kernel with its channels (jupyter_client
\* KernelManager and its client): alive, chan "open" or "stopped"
\* (stop_channels), shell: the requests submitted and not yet finished, in
\* order, emitted: events sent for the request being run.
\* worker process of a kernel id: alive, its channels (chan), the requests it
\* has received and not finished (shell), the messages it published for the
\* one it runs (emitted), and the interrupt signal it received for the request
\* it runs (stop: "none", "sent", or "honoured" once it reported the error);
\* replies: the replies on the client's shell channel nobody has read, by the
\* msg_id of their request; asked: the complete and inspect requests sent
\* (their msg_ids are -1, -2, ...; the msg_id of a code submission is the
\* number of its execution)
NoWorker ==
    [alive |-> FALSE, chan |-> "none", shell |-> <<>>, emitted |-> 0,
     stop |-> "none", replies |-> <<>>, asked |-> 0]

StartedWorker ==
    [alive |-> TRUE, chan |-> "open", shell |-> <<>>, emitted |-> 0,
     stop |-> "none", replies |-> <<>>, asked |-> 0]

\* IOPub message: parent_header.msg_id, header.msg_type and, for a status
\* message, content.execution_state
Msg(p, ty, st) == [parent |-> p, msg_type |-> ty, execution_state |-> st]

\* message types stream_output turns into an output (client.py 62-92)
OutputTypes == {"stream", "execute_result", "display_data", "error"}

\* what a worker publishes while it runs a request, besides the final idle
\* status: the msg_type and execution_state of the message
EmittedKinds ==
    {<<ty, "none">> : ty \in OutputTypes \cup {"execute_input"}}
        \cup {<<"status", "busy">>}

\* ------------------------------------------------------------ tasks
\* pc: "idle"  no call in progress
\*     "create_wait"   create_kernel suspended at manager.py 34
\*     "create_evict"  create_kernel holds the lock (34) and is suspended in
\*                     shutdown_kernel(oldest.id) at manager.py 116
\*     "shutdown_wait" shutdown_kernel suspended at manager.py 116
\*     "shutdown_all_wait"  shutdown_all suspended in shutdown_kernel at
\*                     manager.py 116
\*     "ex_magic_out"  execute suspended at executor.py 52 (on_output)
\*     "ex_poll"       stream_output suspended at client.py 50 (to_thread),
\*                     get_iopub_msg running in its thread
\*     "ex_got"        the same, get_iopub_msg has returned a message
\*     "ex_sleep"      stream_output suspended at client.py 53 (sleep)
\*     "ex_out"        execute suspended at executor.py 70 (on_output)
\* kid: the kernel_id argument of the frame; eid: the execution (its number is
\* also the msg_id of its submission); cb: on_output was supplied;
\* outputs: the list of executor.py 65, by output type; msg: the message
\* get_iopub_msg returned last (client.py 50); yielded: the outputs
\* stream_output has yielded (client.py 62-92), by output type; sent: the
\* calls of on_output, by the type of the output passed ("magic" for the
\* immediate result of executor.py 52).
NoMsg == Msg(0, "none", "none")

IdleTask ==
    [pc |-> "idle", kid |-> 0, eid |-> 0, cb |-> FALSE, outputs |-> <<>>,
     msg |-> NoMsg, yielded |-> <<>>, sent |-> <<>>]

Blocked(p, k) == [IdleTask EXCEPT !.pc = p, !.kid = k]

\* returned: the call the latest step completed (op), its kernel id (arg) and
\* how it ended (ret: "ok", "result" or the exception raised).  For execute,
\* eid is the execution whose ExecutionResult was returned and fault the
\* place where its try block was left by an exception ("none" if it was not).
\* val is a further argument of the call (the status of update_status).
Ret(o, a, r) ==
    [op |-> o, arg |-> a, ret |-> r, eid |-> 0, fault |-> "none",
     val |-> "none"]

\* execute returns the ExecutionResult of execution e (executor.py 100-101)
RetResult(k, e, f) ==
    [op |-> "execute", arg |-> k, ret |-> "result", eid |-> e, fault |-> f,
     val |-> "none"]

\* the latest step completed no call
NoReturn == Ret("none", 0, "none")

Constructed ==
    /\ kernels = <<>>
    /\ jupyter_managers = {}
    /\ clients = {}
    /\ lock = [locked |-> FALSE, waiters |-> <<>>]
    /\ executions = <<>>
    /\ worker = [k \in KernelIds |-> NoWorker]
    /\ iopub = [k \in KernelIds |-> <<>>]
    /\ now = 0
    /\ nextId = 0
    /\ task = [t \in Tasks |-> IdleTask]

Init == Constructed /\ returned = NoReturn

\* ------------------------------------------------------------ pool actions
\* the system clock advances
Tick ==
    /\ now < MaxClock
    /\ now' = now + 1
    /\ UNCHANGED <<pool, lock, executions, worker, iopub, nextId, task>>
    /\ returned' = NoReturn

\* create has returned for kernel id k; start is what the worker did
\* (recorded as fault when it is not "ok")
RetCreate(k, r, start) ==
    [Ret("create", k, r) EXCEPT !.fault = IF start = "ok" THEN "none" ELSE start]

\* only a failure to launch is caught: a readiness timeout is taken for a start
StartFailed_launch_only(start) == start = "launch_fail"

\* an exception leaves the try block of manager.py 39-59 (caught at line 61)
StartFailed(start) == start # "ok"

\* KernelManager.create_kernel.  start is the outcome of launching the worker:
\* "ok", "launch_fail" (km.start_kernel raises) or "ready_timeout"
\* (wait_for_ready raises).
CreateKernel(t, start) ==
    /\ task[t].pc = "idle"
    /\ nextId < MaxIds
    /\ nextId' = nextId + 1
    /\ LET kernel_id == nextId + 1 IN
       IF ~LockFree(lock)
       THEN \* line 34 suspends
            /\ lock' = Enqueue(lock, t)
            /\ task' = [task EXCEPT ![t] = Blocked("create_wait", kernel_id)]
            /\ UNCHANGED <<pool, worker>>
            /\ returned' = NoReturn
       ELSE IF AtCapacity(kernels)
       THEN \* lines 35-37: holds the lock and awaits shutdown_kernel, whose
            \* line 116 acquires the same lock and suspends
            /\ lock' = [locked |-> TRUE, waiters |-> <<t>>]
            /\ task' = [task EXCEPT ![t] =
                           Blocked("create_evict", oldest(kernels).id)]
            /\ UNCHANGED <<pool, worker>>
            /\ returned' = NoReturn
       ELSE IF ~StartFailed(start)
       THEN \* lines 39-59
            /\ kernels' = Append(kernels, NewKernel(kernel_id, now))
            /\ jupyter_managers' = jupyter_managers \cup {kernel_id}
            /\ clients' = clients \cup {kernel_id}
            /\ worker' = [worker EXCEPT ![kernel_id] = StartedWorker]
            /\ returned' = RetCreate(kernel_id, "ok", start)
            /\ UNCHANGED <<lock, task>>
       ELSE \* lines 61-62
            /\ returned' = RetCreate(kernel_id, "KernelStartError", start)
            /\ UNCHANGED <<pool, lock, worker, task>>
    /\ UNCHANGED <<executions, iopub, now>>

\* a direct call of KernelManager.update_status
UpdateStatus(t, k, s) ==
    /\ task[t].pc = "idle"
    /\ kernels' = update_status(kernels, k, s, now)
    /\ returned' = [Ret("update_status", k, "ok") EXCEPT !.val = s]
    /\ UNCHANGED <<jupyter_managers, clients, lock, executions, worker, iopub,
                   now, nextId, task>>

\* get_kernel that counts as activity of the kernel
GetKernel_touch(t, k) ==
    /\ task[t].pc = "idle"
    /\ kernels' = update_status(kernels, k, "idle", now)
    /\ returned' = Ret("get", k, IF k \in KernelKeys(kernels)
                                 THEN "ok" ELSE "KernelNotFoundError")
    /\ UNCHANGED <<jupyter_managers, clients, lock, executions, worker, iopub,
                   now, nextId, task>>

\* KernelManager.get_kernel
GetKernel(t, k) ==
    /\ task[t].pc = "idle"
    /\ returned' = Ret("get", k, IF k \in KernelKeys(kernels)
                                 THEN "ok" ELSE "KernelNotFoundError")
    /\ UNCHANGED <<pool, lock, executions, worker, iopub, now, nextId, task>>

\* km.interrupt_kernel() that sends nothing
Signal_none(w) == w

\* km.interrupt_kernel() (manager.py 91): the signal reaches the worker
\* process; a process that runs no request has nothing to stop
Signal(w) ==
    IF w.alive /\ w.shell # <<>> /\ w.stop = "none"
    THEN [w EXCEPT !.stop = "sent"]
    ELSE w

\* KernelManager.interrupt_kernel, called as op.  sig is the outcome of
\* km.interrupt_kernel().
Interrupt(t, k, sig, op) ==
    /\ task[t].pc = "idle"
    /\ IF k \notin jupyter_managers
       THEN /\ returned' = Ret(op, k, "KernelNotFoundError")
            /\ UNCHANGED <<kernels, worker>>
       ELSE IF sig = "ok"
       THEN /\ worker' = [worker EXCEPT ![k] = Signal(@)]
            /\ kernels' = update_status(kernels, k, "idle", now)
            /\ returned' = Ret(op, k, "ok")
       ELSE /\ returned' = Ret(op, k, "Exception")
            /\ UNCHANGED <<kernels, worker>>
    /\ UNCHANGED <<jupyter_managers, clients, lock, executions, iopub,
                   now, nextId, task>>

\* KernelManager.interrupt_kernel
InterruptKernel(t, k, sig) == Interrupt(t, k, sig, "interrupt")

\* CodeExecutor.cancel_execution: awaits kernel_manager.interrupt_kernel
CancelExecution(t, k, sig) == Interrupt(t, k, sig, "cancel")

\* lines 107-110 of restart_kernel without line 109
ResetKernel_keepcount(ks, k, t) ==
    [i \in DOMAIN ks |->
        IF ks[i].id = k
        THEN [ks[i] EXCEPT !.status = "idle", !.last_activity = t]
        ELSE ks[i]]

\* lines 107-110 of restart_kernel
ResetKernel(ks, k, t) ==
    [i \in DOMAIN ks |->
        IF ks[i].id = k
        THEN [ks[i] EXCEPT !.status = "idle", !.execution_count = 0,
                           !.last_activity = t]
        ELSE ks[i]]

\* the test of manager.py 96 never true
restart_untracked_never(jm, k) == FALSE

\* `kernel_id not in self._jupyter_managers` (manager.py 96)
restart_untracked(jm, k) == k \notin jm

\* KernelManager.restart_kernel.  respawn is the outcome of the worker calls:
\* "ok", "restart_fail" (km.restart_kernel raises) or "ready_timeout"
\* (wait_for_ready raises RuntimeError).  A respawned worker has forgotten
\* the requests of its predecessor; the channels stay.
RestartKernel(t, k, respawn) ==
    /\ task[t].pc = "idle"
    /\ IF restart_untracked(jupyter_managers, k)
       THEN /\ returned' = Ret("restart", k, "KernelNotFoundError")
            /\ UNCHANGED <<kernels, worker>>
       ELSE LET marked == update_status(kernels, k, "restarting", now) IN
            IF respawn = "restart_fail"
            THEN /\ kernels' = marked
                 /\ returned' = Ret("restart", k, "Exception")
                 /\ UNCHANGED worker
            ELSE IF k \notin clients
            THEN \* line 104: self._clients[kernel_id]
                 /\ kernels' = marked
                 /\ worker' = [worker EXCEPT ![k].alive = TRUE,
                                             ![k].shell = <<>>,
                                             ![k].emitted = 0,
                                             ![k].stop = "none"]
                 /\ returned' = Ret("restart", k, "KeyError")
            ELSE IF respawn = "ready_timeout"
            THEN /\ kernels' = marked
                 /\ worker' = [worker EXCEPT ![k].alive = FALSE,
                                             ![k].shell = <<>>,
                                             ![k].emitted = 0,
                                             ![k].stop = "none"]
                 /\ returned' = [Ret("restart", k, "RuntimeError")
                                   EXCEPT !.fault = "ready_timeout"]
            ELSE /\ kernels' = ResetKernel(marked, k, now)
                 /\ worker' = [worker EXCEPT ![k].alive = TRUE,
                                             ![k].shell = <<>>,
                                             ![k].emitted = 0,
                                             ![k].stop = "none"]
                 /\ returned' = Ret("restart", k, "ok")
    /\ UNCHANGED <<jupyter_managers, clients, lock, executions, iopub, now,
                   nextId, task>>

\* KernelManager.shutdown_kernel.  teardown is the outcome of the worker calls:
\* "ok", "stop_fail" (stop_channels raises) or "shutdown_fail"
\* (km.shutdown_kernel raises).
ShutdownKernel(t, k, teardown) ==
    /\ task[t].pc = "idle"
    /\ IF ~LockFree(lock)
       THEN \* line 116 suspends
            /\ lock' = Enqueue(lock, t)
            /\ task' = [task EXCEPT ![t] = Blocked("shutdown_wait", k)]
            /\ UNCHANGED <<pool, worker>>
            /\ returned' = NoReturn
       ELSE IF k \in clients /\ teardown = "stop_fail"
       THEN \* line 118 raises
            /\ returned' = Ret("shutdown", k, "Exception")
            /\ UNCHANGED <<pool, lock, worker, task>>
       ELSE IF k \in jupyter_managers /\ teardown = "shutdown_fail"
       THEN \* line 122 raises, after lines 118-119
            /\ clients' = clients \ {k}
            /\ worker' = [worker EXCEPT ![k].chan = "stopped"]
            /\ returned' = Ret("shutdown", k, "Exception")
            /\ UNCHANGED <<kernels, jupyter_managers, lock, task>>
       ELSE /\ clients' = clients \ {k}
            /\ jupyter_managers' = jupyter_managers \ {k}
            /\ kernels' = DelKernel(kernels, k)
            /\ worker' = IF k \in jupyter_managers
                         THEN [worker EXCEPT ![k].chan = "stopped",
                                             ![k].alive = FALSE,
                                             ![k].shell = <<>>,
                                             ![k].emitted = 0,
                                             ![k].stop = "none",
                                             ![k].replies = <<>>]
                         ELSE worker
            /\ returned' = Ret("shutdown", k, "ok")
            /\ UNCHANGED <<lock, task>>
    /\ UNCHANGED <<executions, iopub, now, nextId>>

\* KernelManager.shutdown_all: shutdown_kernel for every id of
\* list(self._kernels.keys()), in dict order.  With the lock free the loop runs
\* without suspending; the teardown of kernel fail raises as teardown says
\* (fail = 0: no teardown raises), which ends the loop.
ShutdownAll(t, fail, teardown) ==
    /\ task[t].pc = "idle"
    /\ IF kernels = <<>>
       THEN /\ returned' = Ret("shutdown_all", 0, "ok")
            /\ UNCHANGED <<pool, lock, worker, task>>
       ELSE IF ~LockFree(lock)
       THEN \* line 116 suspends in the first shutdown_kernel
            /\ lock' = Enqueue(lock, t)
            /\ task' = [task EXCEPT ![t] =
                           Blocked("shutdown_all_wait", kernels[1].id)]
            /\ UNCHANGED <<pool, worker>>
            /\ returned' = NoReturn
       ELSE LET raises == /\ fail \in KernelKeys(kernels)
                          /\ \/ teardown = "stop_fail" /\ fail \in clients
                             \/ /\ teardown = "shutdown_fail"
                                /\ fail \in jupyter_managers
                upto == IF raises
                      THEN CHOOSE i \in DOMAIN kernels : kernels[i].id = fail
                      ELSE Len(kernels) + 1
                done == {kernels[i].id : i \in 1..(upto - 1)}
                half == IF raises /\ ~(teardown = "stop_fail" /\ fail \in clients)
                        THEN {fail} ELSE {}
            IN
            /\ kernels' = SelectSeq(kernels, LAMBDA r : r.id \notin done)
            /\ jupyter_managers' = jupyter_managers \ done
            /\ clients' = (clients \ done) \ half
            /\ worker' = [k \in KernelIds |->
                             IF k \in done /\ k \in jupyter_managers
                             THEN [worker[k] EXCEPT !.chan = "stopped",
                                                    !.alive = FALSE,
                                                    !.shell = <<>>,
                                                    !.emitted = 0,
                                                    !.stop = "none",
                                                    !.replies = <<>>]
                             ELSE IF k \in half
                             THEN [worker[k] EXCEPT !.chan = "stopped"]
                             ELSE worker[k]]
            /\ returned' = Ret("shutdown_all", 0,
                               IF raises THEN "Exception" ELSE "ok")
            /\ UNCHANGED <<lock, task>>
    /\ UNCHANGED <<executions, iopub, now, nextId>>

\* ------------------------------------------------------------ workers
\* the worker of kernel k publishes a message for the request it is running,
\* at most max for one request
Emit(k, kind, max) ==
    /\ worker[k].alive /\ worker[k].chan = "open"
    /\ worker[k].shell # <<>>
    /\ worker[k].emitted < max
    /\ worker[k].stop # "honoured"
    /\ Len(iopub[k]) < MaxIopub
    /\ iopub' = [iopub EXCEPT ![k] =
                    Append(@, Msg(Head(worker[k].shell), kind[1], kind[2]))]
    /\ worker' = [worker EXCEPT ![k].emitted = @ + 1]
    /\ UNCHANGED <<pool, lock, executions, now, nextId, task>>
    /\ returned' = NoReturn

\* the worker of kernel k publishes a message for the request it is running
WorkerEmit(k, kind) == Emit(k, kind, MaxEvents)

\* the worker of kernel k finishes the request it is running: it reports idle
\* for it, replies on the shell channel and turns to the next one
WorkerIdle(k) ==
    /\ worker[k].alive /\ worker[k].chan = "open"
    /\ worker[k].shell # <<>>
    /\ Len(iopub[k]) < MaxIopub
    /\ iopub' = [iopub EXCEPT ![k] =
                    Append(@, Msg(Head(worker[k].shell), "status", "idle"))]
    /\ worker' = [worker EXCEPT ![k].shell = Tail(@), ![k].emitted = 0,
                                ![k].stop = "none",
                                ![k].replies = Append(@, Head(worker[k].shell))]
    /\ UNCHANGED <<pool, lock, executions, now, nextId, task>>
    /\ returned' = NoReturn

\* the worker of kernel k honours the interrupt signal: it reports an error for
\* the request it is running
WorkerStop(k) ==
    /\ worker[k].alive /\ worker[k].chan = "open"
    /\ worker[k].shell # <<>>
    /\ worker[k].stop = "sent"
    /\ Len(iopub[k]) < MaxIopub
    /\ iopub' = [iopub EXCEPT ![k] =
                    Append(@, Msg(Head(worker[k].shell), "error", "none"))]
    /\ worker' = [worker EXCEPT ![k].stop = "honoured"]
    /\ UNCHANGED <<pool, lock, executions, now, nextId, task>>
    /\ returned' = NoReturn

\* the worker process of kernel k dies while it runs a request
WorkerDie(k) ==
    /\ worker[k].alive
    /\ worker[k].shell # <<>>
    /\ worker' = [worker EXCEPT ![k].alive = FALSE]
    /\ UNCHANGED <<pool, lock, executions, iopub, now, nextId, task>>
    /\ returned' = NoReturn

\* ------------------------------------------------------------ magics
\* A text is a sequence of characters.  "%" is the sigil, " " and "\n" are
\* whitespace; a letter stands for a word: "W" and "B" for names of the
\* block-handler table only (%%writefile, %%bash), "T" for a name of both
\* tables (%timeit, %%timeit), "P" for a name of the line-handler table only
\* (%pwd), "u" for a name of neither table, "x" for other text.
IsSpace(c) == c \in {" ", "\n"}

RECURSIVE lstrip(_)
lstrip(s) == IF s # <<>> /\ IsSpace(Head(s)) THEN lstrip(Tail(s)) ELSE s

RECURSIVE rstrip(_)
rstrip(s) ==
    IF s # <<>> /\ IsSpace(s[Len(s)])
    THEN rstrip(SubSeq(s, 1, Len(s) - 1))
    ELSE s

\* str.strip()
strip(s) == rstrip(lstrip(s))

\* str.split('\n')
RECURSIVE split(_)
split(s) ==
    IF \E i \in DOMAIN s : s[i] = "\n"
    THEN LET i == CHOOSE i \in DOMAIN s :
                     s[i] = "\n" /\ \A j \in 1..(i - 1) : s[j] # "\n"
         IN <<SubSeq(s, 1, i - 1)>> \o split(SubSeq(s, i + 1, Len(s)))
    ELSE <<s>>

\* '\n'.join(lines)
RECURSIVE join(_)
join(lines) ==
    IF lines = <<>> THEN <<>>
    ELSE IF Len(lines) = 1 THEN lines[1]
    ELSE lines[1] \o <<"\n">> \o join(Tail(lines))

\* str.startswith
startswith(s, p) == Len(s) >= Len(p) /\ SubSeq(s, 1, Len(p)) = p

\* s.split(None, 1) for a text s that starts with a sigil: the first word and,
\* if anything but whitespace follows, the rest without its leading whitespace
parts(s) ==
    IF \E i \in DOMAIN s : IsSpace(s[i])
    THEN LET i == CHOOSE i \in DOMAIN s :
                     IsSpace(s[i]) /\ \A j \in 1..(i - 1) : ~IsSpace(s[j])
             rest == lstrip(SubSeq(s, i + 1, Len(s)))
         IN IF rest = <<>> THEN <<SubSeq(s, 1, i - 1)>>
                           ELSE <<SubSeq(s, 1, i - 1), rest>>
    ELSE <<s>>

\* the keys of self._cell_magics and self._line_magics (magic.py 15-47)
cell_magics == {<<"%", "%", "W">>, <<"%", "%", "B">>, <<"%", "%", "T">>}

line_magics == {<<"%", "T">>, <<"%", "P">>}

\* a line of rewritten code: a line of the submission as it was (by <<>>,
\* the line in args), or the code handler `by` produced from args and, for a
\* block handler, body
Kept(line) == [by |-> <<>>, args |-> line, body |-> <<>>]

Rewritten(name, args, body) == [by |-> name, args |-> args, body |-> body]

\* the immediate result of a handler: {'type': 'error', 'text': ...}
ErrorResult(name) == [type |-> "error", text |-> name]

\* a block handler (magic.py 324-413): %%writefile without a file name gives
\* no code and an error (350-351); every other call wraps the body
cell_magic(name, args, body) ==
    IF name = <<"%", "%", "W">> /\ strip(args) = <<>>
    THEN [code |-> <<>>, result |-> <<ErrorResult(name)>>]
    ELSE [code |-> <<Rewritten(name, strip(args), body)>>, result |-> <<>>]

\* a line handler (magic.py 108-318): %timeit and its like give no code and an
\* error without a statement (147-148); %pwd and its like give one snippet
\* whatever follows the name (171-177); every other call gives code made
\* from args
line_magic(name, args) ==
    IF name = <<"%", "T">> /\ args = <<>>
    THEN [code |-> <<>>, result |-> <<ErrorResult(name)>>]
    ELSE IF name = <<"%", "P">>
    THEN [code |-> <<Rewritten(name, <<>>, <<>>)>>, result |-> <<>>]
    ELSE [code |-> <<Rewritten(name, args, <<>>)>>, result |-> <<>>]

\* what process has gathered: transformed_lines (code), pre_results (results)
\* and the handler calls made so far, as [name, args, body]
NoLines == [code |-> <<>>, results |-> <<>>, calls |-> <<>>]

\* magic.py 87-89: an unknown line magic passes through
unknown_magic(line) == <<Kept(line)>>

\* the body of the loop of process for one line (magic.py 75-91)
process_line(acc, line) ==
    LET stripped == strip(line) IN
    IF startswith(stripped, <<"%">>) /\ ~startswith(stripped, <<"%", "%">>)
    THEN LET ps == parts(stripped)
             magic_name == ps[1]
             args == IF Len(ps) > 1 THEN ps[2] ELSE <<>>
         IN IF magic_name \in line_magics
            THEN LET out == line_magic(magic_name, args) IN
                 [code |-> acc.code \o out.code,
                  results |-> acc.results \o out.result,
                  calls |-> Append(acc.calls,
                                   [name |-> magic_name, args |-> args,
                                    body |-> <<>>])]
            ELSE [acc EXCEPT !.code = @ \o unknown_magic(line)]
    ELSE [acc EXCEPT !.code = Append(@, Kept(line))]

\* the loop of process (magic.py 71-91) over lines
RECURSIVE process_lines(_, _)
process_lines(acc, lines) ==
    IF lines = <<>> THEN acc
    ELSE process_lines(process_line(acc, Head(lines)), Tail(lines))

\* '\n'.join(lines[1:]) (magic.py 65)
rest_of_code(lines) == join(Tail(lines))

\* magic.py 95-102: None (<<>>) without results, else one dict with the
\* results under 'outputs'
combined_result(pre_results) ==
    IF pre_results = <<>>
    THEN <<>>
    ELSE <<[type |-> "magic_output", outputs |-> pre_results]>>

\* MagicProcessor.process (magic.py 49-102): the rewritten code as its lines,
\* the pre-execution result (<<>> for None, else one dict) and the handler
\* calls made
process(code) ==
    LET lines == split(strip(code))
        first_line == strip(lines[1])
        ps == parts(first_line)
    IN
    IF startswith(first_line, <<"%", "%">>) /\ ps[1] \in cell_magics
    THEN LET args == IF Len(ps) > 1 THEN ps[2] ELSE <<>>
             body == rest_of_code(lines)
             out == cell_magic(ps[1], args, body)
         IN [code |-> out.code, result |-> out.result,
             calls |-> <<[name |-> ps[1], args |-> args, body |-> body]>>]
    ELSE LET out == process_lines(NoLines, lines) IN
         [code |-> out.code, result |-> combined_result(out.results),
          calls |-> out.calls]

\* the n-th call of process of the one magic_processor takes what an earlier
\* call was given into its code
process_call_remembering(n, code) ==
    IF n = 1 THEN process(code) ELSE process(code \o <<"\n", "x">>)

\* the n-th call of process of the one magic_processor (magic.py 417): the
\* call reads code and the two handler tables and assigns no attribute
process_call(n, code) == process(code)

\* magic_result.get('outputs', []) (executor.py 55)
get_outputs(magic_result) ==
    IF "outputs" \in DOMAIN magic_result THEN magic_result.outputs ELSE <<>>

\* str() of the list of executor.py 55: "[]" for the empty list, "magic" for a
\* list that shows results
str_outputs(outputs) == IF outputs = <<>> THEN "[]" ELSE "magic"

\* the calls of on_output made for the immediate result (executor.py 51-56):
\* one, with the text of the outputs read from it
on_output_magic(magic_result) == <<str_outputs(get_outputs(magic_result))>>

\* the submissions execute calls are followed with: code without magics, a
\* line magic that gives an immediate result, a block magic that gives one
Submission(magic) ==
    IF magic = "immediate" THEN <<"%", "T">>
    ELSE IF magic = "block" THEN <<"%", "%", "W">>
    ELSE <<"x">>

\* ------------------------------------------------------------ execute
\* ExecutionResult: status, outputs (by output type), error (<<>> is None,
\* else one record with ename and evalue), execution_count (0 is None)
NewResult ==
    [status |-> "running", outputs |-> <<>>, error |-> <<>>,
     execution_count |-> 0]

\* executor.py 91
KernelNotFound == <<[ename |-> "KernelNotFound", evalue |-> "Kernel not found"]>>

\* executor.py 95: {"ename": type(e).__name__, "evalue": str(e)}
Caught == <<[ename |-> "Exception", evalue |-> "str(e)"]>>

\* the error output stream_output yields (client.py 86-92)
ErrorOutput == <<[ename |-> "ename", evalue |-> "evalue"]>>

\* a task suspended inside execute
Running(p, k, eid, cb) ==
    [pc |-> p, kid |-> k, eid |-> eid, cb |-> cb, outputs |-> <<>>,
     msg |-> NoMsg, yielded |-> <<>>, sent |-> <<>>]

\* no finally clause
Except_nofinally(t, ex, eid, k, ks, err, fault) ==
    /\ executions' = [ex EXCEPT ![eid].status = "error", ![eid].error = err]
    /\ kernels' = ks
    /\ task' = [task EXCEPT ![t] = IdleTask]
    /\ returned' = RetResult(k, eid, fault)

\* executor.py 89-101 when the try block is left by an exception at `fault`:
\* the except clause that matches (err is the error it stores), the finally
\* clause and the return.  ex and ks are executions and kernels as the try
\* block left them.
Except(t, ex, eid, k, ks, err, fault) ==
    /\ executions' = [ex EXCEPT ![eid].status = "error", ![eid].error = err]
    /\ kernels' = update_status(ks, k, "idle", now)
    /\ task' = [task EXCEPT ![t] = IdleTask]
    /\ returned' = RetResult(k, eid, fault)

\* KernelClient.execute (client.py 21-33) and the entry of stream_output up to
\* its first suspension (client.py 50); the request reaches a worker whose
\* channels are open
Submit(t, eid, k, cb, ks) ==
    /\ kernels' = ks
    /\ worker' = IF worker[k].chan = "open"
                 THEN [worker EXCEPT ![k].shell = Append(@, eid)]
                 ELSE worker
    /\ task' = [task EXCEPT ![t] = [Running("ex_poll", k, eid, cb)
                                       EXCEPT !.sent = task[t].sent]]
    /\ returned' = NoReturn

\* get_client finds a client for every id
get_client_missing_never(cl, k) == FALSE

\* `kernel_id not in self._clients` (manager.py 76): get_client raises
\* KernelNotFoundError
get_client_missing(cl, k) == k \notin cl

\* CodeExecutor.execute from the call to its first suspension.
\* magic: what magic_processor.process is given ("none": code without magics,
\* "immediate": a line magic with an immediate result, "block": a block
\* magic with one) or that it raises ("raise"); cb: on_output was supplied;
\* submit: whether client.execute succeeds ("ok") or raises ("raise").
Execute(t, k, magic, cb, submit) ==
    /\ task[t].pc = "idle"
    /\ Len(executions) < MaxExecs
    /\ LET eid == Len(executions) + 1
           started == Append(executions, NewResult)
           busy == update_status(kernels, k, "busy", now)
           magic_result == process(Submission(magic)).result
       IN
       IF get_client_missing(clients, k)
       THEN \* line 44 raises KernelNotFoundError
            /\ Except(t, started, eid, k, kernels, KernelNotFound, "lookup")
            /\ UNCHANGED worker
       ELSE IF magic = "raise"
       THEN \* line 48 raises
            /\ Except(t, started, eid, k, busy, Caught, "magic")
            /\ UNCHANGED worker
       ELSE IF magic_result # <<>> /\ cb
       THEN \* line 52 suspends in on_output
            /\ executions' = started
            /\ kernels' = busy
            /\ task' = [task EXCEPT ![t] =
                           [Running("ex_magic_out", k, eid, cb)
                               EXCEPT !.sent =
                                  on_output_magic(magic_result[1])]]
            /\ returned' = NoReturn
            /\ UNCHANGED worker
       ELSE IF submit = "raise"
       THEN \* line 59 raises
            /\ Except(t, started, eid, k, busy, Caught, "submit")
            /\ UNCHANGED worker
       ELSE /\ executions' = started
            /\ Submit(t, eid, k, cb, busy)
    /\ UNCHANGED <<jupyter_managers, clients, lock, iopub, now, nextId>>

\* execute resumes after on_output for the immediate magic result
\* (executor.py 52-66).  called: on_output returns ("ok") or raises.
ExecuteMagicOut(t, called, submit) ==
    /\ task[t].pc = "ex_magic_out"
    /\ LET k == task[t].kid
           eid == task[t].eid
       IN
       IF called = "raise"
       THEN /\ Except(t, executions, eid, k, kernels, Caught, "on_output")
            /\ UNCHANGED worker
       ELSE IF submit = "raise"
       THEN /\ Except(t, executions, eid, k, kernels, Caught, "submit")
            /\ UNCHANGED worker
       ELSE /\ Submit(t, eid, k, task[t].cb, kernels)
            /\ UNCHANGED executions
    /\ UNCHANGED <<jupyter_managers, clients, lock, iopub, now, nextId>>

\* the counter of the kernel is left as it is
Counted_not(ks, k) == ks

\* kernel.execution_count += 1 (executor.py 86)
Counted(ks, k) ==
    [i \in DOMAIN ks |->
        IF ks[i].id = k
        THEN [ks[i] EXCEPT !.execution_count = @ + 1]
        ELSE ks[i]]

\* executor.py 76-101 once the stream has ended
Complete(t, eid, k) ==
    LET status == IF executions[eid].status # "error"
                  THEN "success" ELSE executions[eid].status
        done == [executions EXCEPT ![eid].status = status,
                                   ![eid].outputs = task[t].outputs]
    IN
    IF k \notin KernelKeys(kernels)
    THEN \* line 85 raises KernelNotFoundError
         Except(t, done, eid, k, kernels, KernelNotFound, "counter")
    ELSE /\ executions' =
                [done EXCEPT ![eid].execution_count =
                                 KernelOf(kernels, k).execution_count + 1]
         /\ kernels' = update_status(Counted(kernels, k), k, "idle", now)
         /\ task' = [task EXCEPT ![t] = IdleTask]
         /\ returned' = RetResult(k, eid, "none")

\* an error output is not recorded in the result
Classify_never(ex, eid, ty) == ex

\* executor.py 72-74
Classify(ex, eid, ty) ==
    IF ty = "error"
    THEN [ex EXCEPT ![eid].status = "error", ![eid].error = ErrorOutput]
    ELSE ex

\* stream_output without the test of the parent msg_id (client.py 56-57)
stream_output_unfiltered(msg, msg_id) ==
    IF msg.msg_type \in OutputTypes THEN "yield"
    ELSE IF msg.msg_type = "status" /\ msg.execution_state = "idle" THEN "break"
    ELSE "ignore"

\* what stream_output does with a message it has received (client.py 56-96):
\* "discard" it (another request's), "yield" an output, "break" or "ignore" it
stream_output(msg, msg_id) ==
    IF msg.parent # msg_id THEN "discard"
    ELSE IF msg.msg_type \in OutputTypes THEN "yield"
    ELSE IF msg.msg_type = "status" /\ msg.execution_state = "idle" THEN "break"
    ELSE "ignore"

\* the output is put in front of the list
outputs_append_front(outs, ty) == <<ty>> \o outs

\* outputs.append(output) (executor.py 67)
outputs_append(outs, ty) == Append(outs, ty)

\* get_iopub_msg(timeout=1.0) in the thread asyncio.to_thread started
\* (client.py 50): it takes the next message off the channel, or raises
\* (queue.Empty after the timeout, or an error of the closed channel) and
\* stream_output goes to sleep (client.py 51-53)
Poll(t) ==
    /\ task[t].pc = "ex_poll"
    /\ LET k == task[t].kid IN
       IF iopub[k] = <<>> \/ worker[k].chan # "open"
       THEN /\ task' = [task EXCEPT ![t].pc = "ex_sleep"]
            /\ UNCHANGED iopub
       ELSE /\ task' = [task EXCEPT ![t].pc = "ex_got",
                                    ![t].msg = Head(iopub[k])]
            /\ iopub' = [iopub EXCEPT ![k] = Tail(@)]
    /\ UNCHANGED <<pool, lock, executions, worker, now, nextId>>
    /\ returned' = NoReturn

\* stream_output resumes with the message (client.py 56-96) and runs, with its
\* consumer (executor.py 66-74), to the next suspension
Handle(t) ==
    /\ task[t].pc = "ex_got"
    /\ LET k == task[t].kid
           eid == task[t].eid
           msg == task[t].msg
           event == stream_output(msg, eid)
       IN
       IF event = "yield"
       THEN \* executor.py 67 appends the output
            IF task[t].cb
            THEN \* executor.py 70 suspends in on_output
                 /\ task' = [task EXCEPT
                                ![t].pc = "ex_out",
                                ![t].yielded = Append(@, msg.msg_type),
                                ![t].outputs = outputs_append(@, msg.msg_type),
                                ![t].sent = Append(@, msg.msg_type)]
                 /\ UNCHANGED <<kernels, executions>>
                 /\ returned' = NoReturn
            ELSE /\ executions' = Classify(executions, eid, msg.msg_type)
                 /\ task' = [task EXCEPT
                                ![t].pc = "ex_poll",
                                ![t].yielded = Append(@, msg.msg_type),
                                ![t].outputs = outputs_append(@, msg.msg_type)]
                 /\ UNCHANGED kernels
                 /\ returned' = NoReturn
       ELSE IF event = "break"
       THEN Complete(t, eid, k)
       ELSE /\ task' = [task EXCEPT ![t].pc = "ex_poll"]
            /\ UNCHANGED <<kernels, executions>>
            /\ returned' = NoReturn
    /\ UNCHANGED <<jupyter_managers, clients, lock, worker, iopub, now, nextId>>

\* stream_output resumes from asyncio.sleep (client.py 53-54) and polls again
Sleep(t) ==
    /\ task[t].pc = "ex_sleep"
    /\ task' = [task EXCEPT ![t].pc = "ex_poll"]
    /\ UNCHANGED <<pool, lock, executions, worker, iopub, now, nextId>>
    /\ returned' = NoReturn

\* execute resumes after on_output for a streamed output (executor.py 70-74)
\* and the stream polls again.  called: on_output returns ("ok") or raises.
ExecuteOut(t, called) ==
    /\ task[t].pc = "ex_out"
    /\ LET k == task[t].kid
           eid == task[t].eid
       IN
       IF called = "raise"
       THEN Except(t, executions, eid, k, kernels, Caught, "on_output")
       ELSE /\ executions' = Classify(executions, eid, task[t].msg.msg_type)
            /\ task' = [task EXCEPT ![t].pc = "ex_poll"]
            /\ UNCHANGED kernels
            /\ returned' = NoReturn
    /\ UNCHANGED <<jupyter_managers, clients, lock, worker, iopub, now, nextId>>

\* ------------------------------------------------------------ shell requests
\* self._client.get_shell_msg(timeout=5.0) (client.py 101, 107) when a reply
\* is there: the first unread reply of the channel, whatever request m was
\* sent
get_shell_msg(w, m) == Head(w.replies)

\* KernelClient.complete / KernelClient.inspect behind their routes
\* (api/kernels.py 111-133), called as op.  The call does not suspend:
\* get_shell_msg blocks the event loop for up to 5 s.  answered: a worker that
\* runs nothing replies within that time.
ShellRequest(t, k, op, answered) ==
    /\ task[t].pc = "idle"
    /\ IF get_client_missing(clients, k)
       THEN /\ returned' = Ret(op, k, "KernelNotFoundError")
            /\ UNCHANGED <<worker, iopub>>
       ELSE LET m == -(worker[k].asked + 1)
                w == [worker[k] EXCEPT !.asked = @ + 1]
            IN
            /\ worker[k].asked < MaxAsks
            /\ IF w.replies # <<>>
               THEN \* a reply is waiting: it is returned at once
                    /\ worker' = [worker EXCEPT ![k] =
                                     [w EXCEPT !.replies = Tail(@),
                                               !.shell = Append(@, m)]]
                    /\ returned' = [Ret(op, k, "ok")
                                      EXCEPT !.val = get_shell_msg(w, m)]
                    /\ UNCHANGED iopub
               ELSE IF /\ answered /\ w.alive /\ w.shell = <<>>
                       /\ Len(iopub[k]) < MaxIopub
               THEN \* the worker runs the request and its reply is read
                    /\ worker' = [worker EXCEPT ![k] = w]
                    /\ iopub' = [iopub EXCEPT ![k] =
                                    Append(@, Msg(m, "status", "idle"))]
                    /\ returned' = [Ret(op, k, "ok") EXCEPT !.val = m]
               ELSE \* queue.Empty after 5 s; the request stays with the worker
                    /\ worker' = [worker EXCEPT ![k] =
                                     [w EXCEPT !.shell = Append(@, m)]]
                    /\ returned' = Ret(op, k, "Empty")
                    /\ UNCHANGED iopub
    /\ UNCHANGED <<pool, lock, executions, now, nextId, task>>

\* KernelClient.complete
CompleteCode(t, k, answered) == ShellRequest(t, k, "complete", answered)

\* KernelClient.inspect
InspectCode(t, k, answered) == ShellRequest(t, k, "inspect", answered)

\* KernelClient.get_variables behind its route (api/kernels.py 89-101).  The
\* call does not suspend: it submits its request (client.py 161) and reads
\* the event channel with get_iopub_msg(timeout=5.0) until the idle status
\* of its request or a timeout (163-184), dropping every message of another
\* request (170-171).  answered: a worker that runs nothing finishes the
\* request within that time.
GetVariables(t, k, answered) ==
    /\ task[t].pc = "idle"
    /\ IF get_client_missing(clients, k)
       THEN /\ returned' = Ret("variables", k, "KernelNotFoundError")
            /\ UNCHANGED <<worker, iopub>>
       ELSE LET m == -(worker[k].asked + 1)
                w == [worker[k] EXCEPT !.asked = @ + 1]
            IN
            /\ worker[k].asked < MaxAsks
            /\ iopub' = [iopub EXCEPT ![k] = <<>>]
            /\ IF answered /\ w.alive /\ w.shell = <<>>
               THEN \* the worker runs the request; its events are read
                    /\ worker' = [worker EXCEPT ![k] =
                                     [w EXCEPT !.replies = Append(@, m)]]
                    /\ returned' = [Ret("variables", k, "ok") EXCEPT !.val = m]
               ELSE \* queue.Empty ends the loop; the request stays with the
                    \* worker
                    /\ worker' = [worker EXCEPT ![k] =
                                     [w EXCEPT !.shell = Append(@, m)]]
                    /\ returned' = Ret("variables", k, "ok")
    /\ UNCHANGED <<pool, lock, executions, now, nextId, task>>

\* a result is found only while its execution runs
get_execution_running(ex, e) ==
    IF e \in DOMAIN ex /\ ex[e].status = "running" THEN "result" ELSE "None"

\* self._executions.get(execution_id) (executor.py 105): the result, or None
get_execution(ex, e) == IF e \in DOMAIN ex THEN "result" ELSE "None"

\* CodeExecutor.get_execution
GetExecution(t, e) ==
    /\ task[t].pc = "idle"
    /\ returned' = [Ret("get_execution", 0, get_execution(executions, e))
                       EXCEPT !.eid = e]
    /\ UNCHANGED <<pool, lock, executions, worker, iopub, now, nextId, task>>

\* ------------------------------------------------------------ specifications
Outcome == {"ok", "raise"}

\* the calls of the routing layer on the pool (api/kernels.py)
PoolCall ==
    \/ \E t \in Tasks : \E start \in {"ok", "launch_fail", "ready_timeout"} :
          CreateKernel(t, start)
    \/ \E t \in Tasks : \E k \in KernelIds : GetKernel(t, k)
    \/ \E t \in Tasks : \E k \in KernelIds : \E sig \in Outcome :
          InterruptKernel(t, k, sig)
    \/ \E t \in Tasks : \E k \in KernelIds :
          \E respawn \in {"ok", "restart_fail", "ready_timeout"} :
             RestartKernel(t, k, respawn)
    \/ \E t \in Tasks : \E k \in KernelIds :
          \E teardown \in {"ok", "stop_fail", "shutdown_fail"} :
             ShutdownKernel(t, k, teardown)

Next == Tick \/ PoolCall

\* the routing layer creates and shuts down the first ExecIds kernels
Lifecycle ==
    \/ \E t \in Tasks : \E start \in {"ok", "launch_fail", "ready_timeout"} :
          nextId < ExecIds /\ CreateKernel(t, start)
    \/ \E t \in Tasks : \E k \in 1..ExecIds :
          \E teardown \in {"ok", "stop_fail", "shutdown_fail"} :
             ShutdownKernel(t, k, teardown)

\* an execute call (api/execute.py, websocket/message_handler.py) and its
\* continuations
ExecStep ==
    \/ \E t \in Tasks : \E k \in 1..ExecIds :
          \E magic \in {"none", "immediate", "raise"} :
             \E cb \in BOOLEAN : \E submit \in Outcome :
                Execute(t, k, magic, cb, submit)
    \/ \E t \in Tasks : \E called \in Outcome : \E submit \in Outcome :
          ExecuteMagicOut(t, called, submit)
    \/ \E t \in Tasks : Poll(t)
    \/ \E t \in Tasks : Handle(t)
    \/ \E t \in Tasks : Sleep(t)
    \/ \E t \in Tasks : \E called \in Outcome : ExecuteOut(t, called)

\* the worker processes
WorkerStep ==
    \/ \E k \in KernelIds : \E kind \in EmittedKinds : WorkerEmit(k, kind)
    \/ \E k \in KernelIds : WorkerIdle(k)
    \/ \E k \in KernelIds : WorkerDie(k)

NextExec == Lifecycle \/ ExecStep \/ WorkerStep

\* the pool under the calls of the routing layer
Spec == Init /\ [][Next]_vars

\* executions on the kernels of the pool, with their workers
SpecExec == Init /\ [][NextExec]_vars

\* interrupt and restart calls (api/kernels.py, api/execute.py cancel) on the
\* kernels executions run on
Control ==
    \/ \E t \in Tasks : \E k \in 1..ExecIds : \E sig \in Outcome :
          InterruptKernel(t, k, sig)
    \/ \E t \in Tasks : \E k \in 1..ExecIds :
          \E respawn \in {"ok", "restart_fail", "ready_timeout"} :
             RestartKernel(t, k, respawn)

NextControl == NextExec \/ Control

\* executions on the kernels of the pool while kernels are interrupted and
\* restarted
SpecControl == Init /\ [][NextControl]_vars

\* interrupt calls and the workers' reaction to the signal
Stop ==
    \/ \E t \in Tasks : \E k \in 1..ExecIds : \E sig \in Outcome :
          InterruptKernel(t, k, sig)
    \/ \E k \in 1..ExecIds : WorkerStop(k)

NextStop == NextExec \/ Stop

\* executions on the kernels of the pool while kernels are interrupted and
\* their workers honour the signal
SpecStop == Init /\ [][NextStop]_vars

\* the caller that executes when executions are issued one after another
Executor == 1

\* execute calls of one caller, one after another, and their continuations
SoloStep ==
    \/ \E k \in 1..ExecIds : \E magic \in {"none", "immediate", "raise"} :
          \E cb \in BOOLEAN : \E submit \in Outcome :
             Execute(Executor, k, magic, cb, submit)
    \/ \E called \in Outcome : \E submit \in Outcome :
          ExecuteMagicOut(Executor, called, submit)
    \/ Poll(Executor)
    \/ Handle(Executor)
    \/ Sleep(Executor)
    \/ \E called \in Outcome : ExecuteOut(Executor, called)

\* the worker processes, with longer event sequences
SoloWorker ==
    \/ \E k \in KernelIds : \E kind \in EmittedKinds : Emit(k, kind, MoreEvents)
    \/ \E k \in KernelIds : WorkerIdle(k)
    \/ \E k \in KernelIds : WorkerDie(k)

\* reads of execution results (api/execute.py get_execution)
Lookup == \E t \in Tasks : \E e \in 1..MaxExecs : GetExecution(t, e)

NextSolo == Lifecycle \/ SoloStep \/ SoloWorker \/ Lookup

\* executions issued one after another by one caller while other callers
\* create and shut down kernels and read execution results
SpecSolo == Init /\ [][NextSolo]_vars

\* interrupt, cancel and restart calls (api/kernels.py, api/execute.py) and
\* the workers' reaction to the interrupt signal
Cancel ==
    \/ \E t \in Tasks : \E k \in 1..ExecIds : \E sig \in Outcome :
          InterruptKernel(t, k, sig)
    \/ \E t \in Tasks : \E k \in 1..ExecIds : \E sig \in Outcome :
          CancelExecution(t, k, sig)
    \/ \E t \in Tasks : \E k \in 1..ExecIds :
          \E respawn \in {"ok", "restart_fail", "ready_timeout"} :
             RestartKernel(t, k, respawn)
    \/ \E k \in 1..ExecIds : WorkerStop(k)

NextCancel == Lifecycle \/ SoloStep \/ WorkerStep \/ Cancel

\* executions issued one after another by one caller while other callers
\* interrupt, cancel and restart
SpecCancel == Init /\ [][NextCancel]_vars

\* completion and inspection calls (api/kernels.py 111-133)
Ask ==
    \/ \E t \in Tasks : \E k \in 1..ExecIds : \E answered \in BOOLEAN :
          CompleteCode(t, k, answered)
    \/ \E t \in Tasks : \E k \in 1..ExecIds : \E answered \in BOOLEAN :
          InspectCode(t, k, answered)

NextShell == Lifecycle \/ SoloStep \/ WorkerStep \/ Ask

\* executions issued one after another by one caller while other callers ask
\* for completions and inspections
SpecShell == Init /\ [][NextShell]_vars

\* the kernel caller t executes on when every caller has its own
KernelFor(t) == t

\* the coroutine of caller t runs from one suspension of its execute call to
\* the next
Resume(t) ==
    \/ Poll(t)
    \/ Handle(t)
    \/ Sleep(t)

\* each caller executes through the REST route (api/execute.py 19-28, no
\* on_output) on a kernel of its own
PairStep ==
    \/ \E t \in Tasks : \E start \in {"ok", "launch_fail", "ready_timeout"} :
          nextId < PairIds /\ CreateKernel(t, start)
    \/ \E t \in Tasks : \E magic \in {"none", "raise"} : \E submit \in Outcome :
          Execute(t, KernelFor(t), magic, FALSE, submit)
    \/ \E t \in Tasks : Resume(t)

NextPair == PairStep \/ WorkerStep

\* executions of callers on different kernels.  The event loop resumes every
\* coroutine that can run, and a worker that is alive finishes its request.
SpecPair ==
    /\ Init /\ [][NextPair]_vars
    /\ \A t \in Tasks : WF_vars(Resume(t))
    /\ \A k \in KernelIds : WF_vars(WorkerIdle(k))

\* execute calls of one caller with every kind of submission, and their
\* continuations
MagicStep ==
    \/ \E k \in 1..ExecIds :
          \E magic \in {"none", "immediate", "block", "raise"} :
             \E cb \in BOOLEAN : \E submit \in Outcome :
                Execute(Executor, k, magic, cb, submit)
    \/ \E called \in Outcome : \E submit \in Outcome :
          ExecuteMagicOut(Executor, called, submit)
    \/ Poll(Executor)
    \/ Handle(Executor)
    \/ Sleep(Executor)
    \/ \E called \in Outcome : ExecuteOut(Executor, called)

NextForward == Lifecycle \/ MagicStep \/ WorkerStep

\* executions of submissions with and without magics, issued one after
\* another by one caller
SpecForward == Init /\ [][NextForward]_vars

\* the lines submissions are made of: empty, blank, plain text (also indented
\* or with a space at the end), known and unknown block directives, known
\* line directives with and without a result, unknown line directives
SomeLines ==
    { <<>>, <<" ">>, <<"x">>, <<"x", " ">>, <<" ", "x">>,
      <<"%", "%", "W", " ", "x">>, <<"%", "%", "W">>, <<"%", "%", "B">>,
      <<"%", "%", "u">>,
      <<"%", "T", " ", "x">>, <<"%", "T">>, <<" ", "%", "T">>, <<"%", "P">>,
      <<"%", "P", " ", "x">>,
      <<"%", "u", " ", "x">>, <<"%", "u", " ">>, <<"%">> }

\* request.code: up to MaxLines lines
Submissions == UNION {[1..n -> SomeLines] : n \in 1..MaxLines}

\* a submission has arrived
InitMagic ==
    /\ Constructed
    /\ \E ls \in Submissions :
          returned = [NoReturn EXCEPT !.op = "request", !.arg = ls]

\* magic_processor.process(request.code) (executor.py 48)
Process ==
    /\ returned.op = "request"
    /\ returned' = [returned EXCEPT !.op = "process",
                                    !.val = process(join(returned.arg))]
    /\ UNCHANGED <<pool, lock, executions, worker, iopub, now, nextId, task>>

NextMagic == Process

\* the magic processor applied to submissions
SpecMagic == InitMagic /\ [][NextMagic]_vars

\* after the first submission, another execute has a one-line submission
\* processed (executor.py 48); ret keeps what it returned
Between ==
    /\ returned.op = "process"
    /\ \E line \in SomeLines :
          returned' = [returned EXCEPT !.op = "between",
                                       !.ret = process_call(2, line)]
    /\ UNCHANGED <<pool, lock, executions, worker, iopub, now, nextId, task>>

\* the first submission is processed again, as the next call (executor.py
\* 48), right after the first call ("again") or after the one in between
\* ("again_later"); ret keeps what it returned, val what the first call did
Again ==
    /\ returned.op \in {"process", "between"}
    /\ returned' =
          [returned EXCEPT
              !.op = IF returned.op = "process" THEN "again"
                                                ELSE "again_later",
              !.ret = process_call(IF returned.op = "process" THEN 2 ELSE 3,
                                   join(returned.arg))]
    /\ UNCHANGED <<pool, lock, executions, worker, iopub, now, nextId, task>>

NextRepeat == Process \/ Between \/ Again

\* one submission processed twice, with or without another one in between
SpecRepeat == InitMagic /\ [][NextRepeat]_vars

\* execute calls of one caller through the REST route (api/execute.py 19-28,
\* no on_output), and their continuations
RestStep ==
    \/ \E k \in 1..ExecIds : \E magic \in {"none", "raise"} :
          \E submit \in Outcome :
             Execute(Executor, k, magic, FALSE, submit)
    \/ Resume(Executor)

NextOrphan == Lifecycle \/ RestStep \/ WorkerStep

\* executions on kernels that are created and shut down meanwhile.  The event
\* loop resumes the coroutine of the caller whenever it can run.
SpecOrphan ==
    /\ Init /\ [][NextOrphan]_vars
    /\ WF_vars(Resume(Executor))

\* calls of the variables route (api/kernels.py 89-101)
Introspect ==
    \E t \in Tasks : \E k \in 1..ExecIds : \E answered \in BOOLEAN :
       GetVariables(t, k, answered)

\* the worker processes finish their requests or die
QuietWorker ==
    \/ \E k \in KernelIds : WorkerIdle(k)
    \/ \E k \in KernelIds : WorkerDie(k)

\* executions, and requests per kernel, followed beside the pool calls
ActivityExecs == 1

ActivityAsks == 1

\* the calls of the routing layer on the first PairIds kernels
ActivityCall ==
    \/ \E t \in Tasks : \E start \in {"ok", "launch_fail", "ready_timeout"} :
          nextId < PairIds /\ CreateKernel(t, start)
    \/ \E t \in Tasks : \E k \in 1..PairIds : GetKernel(t, k)
    \/ \E t \in Tasks : \E k \in 1..PairIds : \E sig \in Outcome :
          InterruptKernel(t, k, sig)
    \/ \E t \in Tasks : \E k \in 1..PairIds :
          \E respawn \in {"ok", "restart_fail", "ready_timeout"} :
             RestartKernel(t, k, respawn)

\* one execution, and one request of complete, inspect or the variables
\* call per kernel, are followed
NextActivity ==
    \/ Tick
    \/ ActivityCall
    \/ RestStep /\ Len(executions') <= ActivityExecs
    \/ QuietWorker
    \/ (Ask \/ Introspect) /\ \A k \in KernelIds : worker'[k].asked <= ActivityAsks

\* the calls of the routing layer on the pool and on the kernels, while the
\* clock runs and one caller executes
SpecActivity == Init /\ [][NextActivity]_vars

\* direct calls of update_status
StatusCall ==
    \E t \in Tasks : \E k \in KernelIds : \E st \in KernelStatus :
       UpdateStatus(t, k, st)

NextStatus == Next \/ StatusCall

\* the pool under the calls of the routing layer and direct status updates
SpecStatus == Init /\ [][NextStatus]_vars

\* the pool under the calls of the routing layer; the event loop runs a
\* coroutine whenever one can run
FairSpec == Spec /\ WF_vars(Next)

\* the teardown of the process (core/lifespan.py 26-27)
Teardown ==
    \E t \in Tasks : \E fail \in KernelIds \cup {0} :
       \E teardown \in {"stop_fail", "shutdown_fail"} :
          ShutdownAll(t, fail, teardown)

NextTeardown == Next \/ Teardown

\* the pool under the calls of the routing layer and the teardown of the
\* process; the event loop runs a coroutine whenever one can run
SpecTeardown == Init /\ [][NextTeardown]_vars /\ WF_vars(NextTeardown)

\* ------------------------------------------------------------ properties
\* task t is between marking kernel k BUSY (executor.py 45) and returning it to
\* IDLE (executor.py 98)
InBusyWindow(t, k) ==
    /\ task[t].kid = k
    /\ task[t].pc \in {"ex_magic_out", "ex_poll", "ex_got", "ex_sleep", "ex_out"}

\* C1: on every kernel at most one execution is inside its BUSY window at any
\* time, also when execute calls for the same kernel are issued concurrently.
C1_OneBusyWindow ==
    \A k \in KernelIds : \A t1, t2 \in Tasks :
        InBusyWindow(t1, k) /\ InBusyWindow(t2, k) => t1 = t2

\* C2: the pool never holds more than MAX_KERNELS kernel records.
C2_PoolSize == Len(kernels) <= MAX_KERNELS

\* a create call was issued on a full pool
C2_Witness ==
    /\ Len(kernels) = MAX_KERNELS
    /\ \E t \in Tasks : task[t].pc = "create_evict"

\* C3: a create call issued on a full pool removes the kernel whose
\* last_activity is smallest (and then adds the new one), so that after more
\* than MAX_KERNELS creates the pool holds the most recently active kernels.
C3_EvictsOldest ==
    [][(nextId' # nextId /\ AtCapacity(kernels))
           => oldest(kernels).id \notin KernelKeys(kernels')]_vars

\* C4: every create call eventually returns (with a kernel or with
\* KernelStartError), also when the pool is full and a kernel has to be
\* evicted first; the lock is released and later calls proceed.
C4_CreateReturns ==
    \A t \in Tasks :
        (task[t].pc \in {"create_wait", "create_evict"}) ~> (task[t].pc = "idle")

\* execute has not raised: the call that returned gave an ExecutionResult, and
\* when a fault left its try block the result has status ERROR and an error
\* with a kind and a message
ExecuteReturnsResult ==
    returned.op = "execute" =>
        /\ returned.ret = "result"
        /\ returned.eid \in DOMAIN executions
        /\ returned.fault # "none" =>
              LET result == executions[returned.eid] IN
              /\ result.status = "error"
              /\ result.error # <<>>
              /\ result.error[1].ename # ""
              /\ result.error[1].evalue # ""

\* C5: execute never raises, and for every fault (kernel lookup, magic
\* preprocessing, submit, streaming, on_output, counter update) it returns an
\* ExecutionResult with status ERROR and an error with a kind and a message;
\* a streaming fault is a read of the channel after it was closed.
C5_FaultGivesError ==
    [][/\ ExecuteReturnsResult'
       /\ \A t \in Tasks :
             (/\ task[t].pc = "ex_poll"
              /\ worker[task[t].kid].chan = "stopped"
              /\ task'[t] # task[t])
             => /\ returned' = RetResult(task[t].kid, task[t].eid, "stream")
                /\ executions'[task[t].eid].status = "error"
                /\ executions'[task[t].eid].error # <<>>]_vars

\* C6: when execute returns, whatever the outcome, its kernel has status IDLE
\* if it is still in the pool.
C6_IdleOnReturn ==
    (returned.op = "execute" /\ returned.arg \in KernelKeys(kernels))
        => KernelOf(kernels, returned.arg).status = "idle"

\* execute returned because on_output raised; its kernel is in the pool
C6_Witness ==
    /\ returned.op = "execute"
    /\ returned.fault = "on_output"
    /\ returned.arg \in KernelKeys(kernels)

\* the event types stream yields according to C7
C7_Yielded == {"stream", "execute_result", "display_data", "error"}

HardFailure(k) ==
    \/ worker[k].chan = "stopped"
    \/ ~worker[k].alive /\ iopub[k] = <<>>

\* C8: when the worker has died or the channel has failed hard, the stream
\* that polls it ends with an error and execute returns with status ERROR
\* instead of polling again.
C8_FailureEndsStream ==
    [][\A t \in Tasks :
          (/\ task[t].pc = "ex_poll"
           /\ HardFailure(task[t].kid)
           /\ task'[t] # task[t])
          => /\ task'[t].pc = "idle"
             /\ executions'[task[t].eid].status = "error"]_vars

\* C9: get, interrupt and restart of an id that is not in the pool fail with
\* KernelNotFoundError and change nothing.
C9_NotFound ==
    [][(/\ returned'.op \in {"get", "interrupt", "restart"}
        /\ returned'.arg \notin KernelKeys(kernels))
       => /\ returned'.ret = "KernelNotFoundError"
          /\ UNCHANGED <<pool, lock, executions, worker, iopub>>]_vars

\* restart failed for a kernel that had been created and shut down, while
\* another kernel was in the pool
C9_Witness ==
    /\ returned.op = "restart"
    /\ returned.ret = "KernelNotFoundError"
    /\ returned.arg <= nextId
    /\ kernels # <<>>

\* C10: a shutdown that returns has removed the record, the worker handle and
\* the channel of its kernel and nothing else; for an id that is not in the
\* pool (never created, or shut down before) it returns without raising and
\* leaves the pool as it is.
C10_Shutdown ==
    [][returned'.op = "shutdown" =>
          LET k == returned'.arg IN
          /\ returned'.ret = "ok" =>
                /\ kernels' = SelectSeq(kernels, LAMBDA r : r.id # k)
                /\ k \notin KernelKeys(kernels')
                /\ jupyter_managers' = jupyter_managers \ {k}
                /\ clients' = clients \ {k}
          /\ (k \notin KernelKeys(kernels) \cup jupyter_managers \cup clients)
                => returned'.ret = "ok" /\ UNCHANGED pool]_vars

\* shutdown returned for an id that was never in the pool, while a kernel was
\* in the pool
C10_Witness ==
    /\ returned.op = "shutdown"
    /\ returned.ret = "ok"
    /\ returned.arg > nextId
    /\ kernels # <<>>

\* C11: when the worker fails to launch or does not report ready in time,
\* create fails with KernelStartError and the pool has no record, worker handle
\* or channel for the kernel that was being created (the pool is as before).
C11_StartFailure ==
    [][(/\ returned'.op = "create"
        /\ returned'.fault \in {"launch_fail", "ready_timeout"})
       => /\ returned'.ret = "KernelStartError"
          /\ returned'.arg \notin
                 KernelKeys(kernels') \cup jupyter_managers' \cup clients'
          /\ UNCHANGED pool]_vars

\* create failed because the worker did not report ready
C11_Witness ==
    /\ returned.op = "create"
    /\ returned.fault = "ready_timeout"
    /\ returned.ret = "KernelStartError"

\* C12: when restart(id) returns for a kernel in the pool, the kernel has
\* execution_count 0 and status IDLE whatever its status was before, and it is
\* still tracked under the same id with the same worker handle and channel.
C12_RestartResets ==
    [][(returned'.op = "restart" /\ returned'.ret = "ok") =>
          LET k == returned'.arg IN
          /\ k \in KernelKeys(kernels')
          /\ KernelOf(kernels', k).status = "idle"
          /\ KernelOf(kernels', k).execution_count = 0
          /\ KernelKeys(kernels') = KernelKeys(kernels)
          /\ jupyter_managers' = jupyter_managers /\ k \in jupyter_managers'
          /\ clients' = clients /\ k \in clients'
          /\ worker'[k].chan = worker[k].chan]_vars

\* restart returned for a kernel that has completed an execution and on which
\* another execution is inside its BUSY window
C12_Witness ==
    /\ returned.op = "restart"
    /\ returned.ret = "ok"
    /\ \E t \in Tasks : InBusyWindow(t, returned.arg)
    /\ \E e \in DOMAIN executions : executions[e].execution_count = 1

\* C13: when the respawned worker does not report ready in time, restart fails
\* with KernelStartError, as create does, and with no other error.
C13_RestartTimeout ==
    (returned.op = "restart" /\ returned.fault = "ready_timeout")
        => returned.ret = "KernelStartError"

\* an execute call for kernel id k begins in this step
ExecuteCalled(k) ==
    /\ Len(executions') = Len(executions) + 1
    /\ \/ returned'.op = "execute" /\ returned'.arg = k
       \/ \E t \in Tasks : /\ task[t].pc = "idle"
                            /\ task'[t].pc # "idle"
                            /\ task'[t].kid = k

\* C14: execute for a kernel id that is not in the pool returns an ERROR
\* result whose error kind is KernelNotFound, submits no code to any worker and
\* leaves every kernel record unchanged.
C14_AbsentKernel ==
    [][\A k \in KernelIds :
          (ExecuteCalled(k) /\ k \notin KernelKeys(kernels)) =>
             LET eid == Len(executions') IN
             /\ returned' = RetResult(k, eid, "lookup")
             /\ executions'[eid].status = "error"
             /\ executions'[eid].error = KernelNotFound
             /\ UNCHANGED <<pool, worker, iopub>>]_vars

\* execute returned KernelNotFound for a kernel that had been created and shut
\* down
C14_Witness ==
    /\ returned.op = "execute"
    /\ returned.fault = "lookup"
    /\ returned.arg <= nextId
    /\ returned.arg \notin KernelKeys(kernels)
    /\ executions[returned.eid].error = KernelNotFound

\* the result of execution e is classified by its events: ERROR with the data
\* of an error event if an error-typed event is among its outputs, SUCCESS
\* otherwise
ClassifiedByEvents(e) ==
    LET r == executions[e]
        failed == \E i \in DOMAIN r.outputs : r.outputs[i] = "error"
    IN /\ r.status = IF failed THEN "error" ELSE "success"
       /\ r.error = IF failed THEN ErrorOutput ELSE <<>>

\* C15: for an execution whose event stream ran to completion (its idle
\* status was received), the terminal status is ERROR iff an error-typed event
\* was received for it and SUCCESS otherwise, and with ERROR the error field
\* carries the data of an error event of the execution.
C15_Classified ==
    (returned.op = "execute" /\ returned.fault \in {"none", "counter"})
        => ClassifiedByEvents(returned.eid)

\* C15 as amended: the same for an execution whose stream ran to completion
\* and whose kernel was still in the pool at that moment (execute left its try
\* block without a fault).
C15_ClassifiedInPool ==
    (returned.op = "execute" /\ returned.fault = "none")
        => ClassifiedByEvents(returned.eid)

\* execute returned after a completed stream that had yielded an error event
C15_Witness ==
    /\ returned.op = "execute"
    /\ returned.fault = "none"
    /\ \E i \in DOMAIN executions[returned.eid].outputs :
           executions[returned.eid].outputs[i] = "error"

\* C16: for an execution whose stream completes, ExecutionResult.outputs is
\* exactly the sequence of events the stream yielded for it, in the same
\* order, none lost or duplicated, and on_output, when supplied, was called
\* exactly once per event in that order (and never when not supplied).
C16_OutputsAsYielded ==
    [][\A t \in Tasks :
          (/\ task[t].pc = "ex_got"
           /\ returned'.op = "execute"
           /\ returned'.eid = task[t].eid
           /\ returned'.fault \in {"none", "counter"})
          => /\ executions'[task[t].eid].outputs = task[t].yielded
             /\ SelectSeq(task[t].sent, LAMBDA o : o # "magic")
                   = IF task[t].cb THEN task[t].yielded ELSE <<>>]_vars

\* execute returned after a completed stream that had yielded two outputs of
\* different types
C16_Witness ==
    /\ returned.op = "execute"
    /\ returned.fault = "none"
    /\ Len(executions[returned.eid].outputs) = 2
    /\ executions[returned.eid].outputs[1] # executions[returned.eid].outputs[2]

\* C17: an execute whose stream completes with status SUCCESS or a
\* worker-reported ERROR increments the execution_count of its kernel by
\* exactly 1 and returns the new value as result.execution_count; nothing
\* else but a restart changes the counter, so executions that follow one
\* another on a kernel get consecutive counters.
C17_CountsByOne ==
    [][/\ (returned'.op = "execute" /\ returned'.fault = "none") =>
             LET k == returned'.arg IN
             /\ k \in KernelKeys(kernels) \cap KernelKeys(kernels')
             /\ KernelOf(kernels', k).execution_count
                   = KernelOf(kernels, k).execution_count + 1
             /\ executions'[returned'.eid].execution_count
                   = KernelOf(kernels', k).execution_count
       /\ \A k \in KernelKeys(kernels) \cap KernelKeys(kernels') :
             KernelOf(kernels', k).execution_count
                   # KernelOf(kernels, k).execution_count
             => /\ returned'.arg = k
                /\ \/ returned'.op = "execute" /\ returned'.fault = "none"
                   \/ returned'.op = "restart"]_vars

\* the second of two executions completed on a kernel and got counter 2
C17_Witness ==
    /\ returned.op = "execute"
    /\ returned.fault = "none"
    /\ executions[returned.eid].execution_count = 2
    /\ \E e \in DOMAIN executions : executions[e].execution_count = 1

\* C18: once the ExecutionResult kept for an execution id shows a terminal
\* status (SUCCESS or ERROR), its status, outputs, error and execution counter
\* never change again.
C18_TerminalIsFinal ==
    [][\A e \in DOMAIN executions :
          executions[e].status \in {"success", "error"}
             => executions'[e] = executions[e]]_vars

\* C19: get(execution_id) returns the ExecutionResult of every execution
\* execute has started, from the moment the execution is created and for
\* ever after (no result is dropped), and reports not-found for an id execute
\* has not issued.
C19_GetExecution ==
    [][/\ returned'.op = "get_execution" =>
             /\ returned'.ret = IF returned'.eid \in DOMAIN executions
                                THEN "result" ELSE "None"
             /\ UNCHANGED executions
       /\ DOMAIN executions \subseteq DOMAIN executions'
       /\ \A t \in Tasks :
             task'[t].eid # 0 => task'[t].eid \in DOMAIN executions']_vars

\* get returned the result of an execution that had ended, while a later
\* execution was running
C19_Witness ==
    /\ returned.op = "get_execution"
    /\ returned.ret = "result"
    /\ returned.eid \in DOMAIN executions
    /\ executions[returned.eid].status # "running"
    /\ \E t \in Tasks : task[t].eid > returned.eid

\* the edges of the state machine of a kernel record according to C20
C20_Edges ==
    {<<"starting", "idle">>, <<"idle", "busy">>, <<"busy", "idle">>,
     <<"busy", "restarting">>, <<"restarting", "idle">>}

\* C20: every status change of a kernel record follows an edge of
\* STARTING->IDLE, IDLE->BUSY, BUSY->IDLE, BUSY->RESTARTING, RESTARTING->IDLE
\* (a RESTARTING kernel only ever moves to IDLE), and no record in the pool
\* has status DEAD.
C20_StatusEdges ==
    [][/\ \A k \in KernelKeys(kernels) \cap KernelKeys(kernels') :
             KernelOf(kernels', k).status # KernelOf(kernels, k).status
                => <<KernelOf(kernels, k).status, KernelOf(kernels', k).status>>
                      \in C20_Edges
       /\ \A i \in DOMAIN kernels' : kernels'[i].status # "dead"]_vars

\* C21: update_status(id, status) on a tracked id sets that kernel's status
\* and refreshes its last_activity and leaves its other fields and every other
\* kernel unchanged; on an unknown id it raises nothing and changes no state
\* (it never creates a record).
C21_UpdateStatus ==
    [][returned'.op = "update_status" =>
          /\ returned'.ret = "ok"
          /\ Len(kernels') = Len(kernels)
          /\ \A i \in DOMAIN kernels :
                IF kernels[i].id = returned'.arg
                THEN /\ kernels'[i].id = kernels[i].id
                     /\ kernels'[i].status = returned'.val
                     /\ kernels'[i].last_activity = now
                     /\ kernels'[i].execution_count = kernels[i].execution_count
                ELSE kernels'[i] = kernels[i]
          /\ UNCHANGED <<jupyter_managers, clients, lock, executions, worker,
                         iopub>>]_vars

\* update_status was called for an id that is not tracked while another
\* kernel is in the pool
C21_Witness ==
    /\ returned.op = "update_status"
    /\ returned.arg \notin KernelKeys(kernels)
    /\ kernels # <<>>

\* C22: a call of interrupt or cancel on a tracked kernel is never answered
\* KernelNotFoundError, and one that returns has signalled the worker that runs
\* a request, left the kernel IDLE, and changed neither its execution counter
\* nor the set of tracked kernels
C22_InterruptIdle ==
    [][returned'.op \in {"interrupt", "cancel"} =>
          LET k == returned'.arg IN
          /\ k \in KernelKeys(kernels) => returned'.ret # "KernelNotFoundError"
          /\ returned'.ret = "ok" =>
                /\ k \in KernelKeys(kernels)
                /\ Len(kernels') = Len(kernels)
                /\ \A i \in DOMAIN kernels :
                      IF kernels[i].id = k
                      THEN /\ kernels'[i].id = k
                           /\ kernels'[i].status = "idle"
                           /\ kernels'[i].execution_count
                                 = kernels[i].execution_count
                      ELSE kernels'[i] = kernels[i]
                /\ (worker[k].alive /\ worker[k].shell # <<>>)
                      => worker'[k].stop # "none"
                /\ UNCHANGED <<jupyter_managers, clients, executions>>]_vars

\* cancel returned for a kernel that has counted an execution and is running
\* another one, whose worker now holds the signal
C22_Witness ==
    /\ returned.op = "cancel" /\ returned.ret = "ok"
    /\ worker[returned.arg].stop = "sent"
    /\ KernelOf(kernels, returned.arg).execution_count > 0
    /\ \E t \in Tasks : task[t].pc = "ex_poll" /\ task[t].kid = returned.arg

\* the error event of request e on kernel k has reached the stream of task t
\* or can still reach it
ErrorReached(t, k, e) ==
    \/ \E i \in DOMAIN task[t].yielded : task[t].yielded[i] = "error"
    \/ task[t].pc = "ex_got" /\ task[t].msg = Msg(e, "error", "none")
    \/ \E i \in DOMAIN iopub[k] : iopub[k][i] = Msg(e, "error", "none")

\* C23: when a worker that honoured an interrupt reports idle for the request
\* it stopped, the error event it reported before has reached the execute call
\* streaming that request or is still queued for it (else the call can never
\* observe it)
C23_StopObserved ==
    [][\A k \in KernelIds : \A t \in Tasks :
          ( /\ worker[k].stop = "honoured"
            /\ worker[k].shell # <<>>
            /\ iopub'[k] = Append(iopub[k],
                                  Msg(Head(worker[k].shell), "status", "idle"))
            /\ task[t].pc \in {"ex_poll", "ex_got", "ex_sleep", "ex_out"}
            /\ task[t].kid = k
            /\ task[t].eid = Head(worker[k].shell) )
          => ErrorReached(t, k, task[t].eid)]_vars

\* C24: every shutdown_all call that has to wait for the pool lock eventually
\* gets through its loop and returns
C24_ShutdownAllReturns ==
    \A t \in Tasks :
        (task[t].pc = "shutdown_all_wait") ~> (task[t].pc = "idle")

\* C25: the payload complete or inspect returns is the reply to the request
\* the call itself sent
C25_OwnReply ==
    (returned.op \in {"complete", "inspect"} /\ returned.ret = "ok")
        => returned.val = -(worker[returned.arg].asked)

\* the execute call of task t is in flight on a kernel whose worker and
\* channels are up
Served(t) ==
    /\ task[t].pc # "idle"
    /\ worker[task[t].kid].alive
    /\ worker[task[t].kid].chan = "open"

\* C26: a step changes the record of a kernel only if it is a step of a call
\* on that kernel, and an execute call whose own kernel stays up reaches its
\* result whatever the executions on the other kernels do
C26_Independent ==
    /\ [][\A i \in DOMAIN kernels :
             (i \in DOMAIN kernels' /\ kernels'[i] # kernels[i])
                => \E t \in Tasks :
                      /\ task'[t] # task[t]
                      /\ kernels[i].id \in {task[t].kid, task'[t].kid}]_vars
    /\ \A t \in Tasks : Served(t) ~> (task[t].pc = "idle" \/ ~Served(t))

\* the execution on one kernel has returned with its kernel counted once while
\* the execution on the other kernel polls a worker that has died
C26_Witness ==
    \E t \in Tasks : \E u \in Tasks :
        /\ returned.op = "execute" /\ returned.arg = KernelFor(t)
        /\ task[t].pc = "idle"
        /\ KernelFor(t) \in KernelKeys(kernels)
        /\ KernelOf(kernels, KernelFor(t)).execution_count = 1
        /\ u # t
        /\ task[u].pc = "ex_poll" /\ task[u].kid = KernelFor(u)
        /\ ~worker[KernelFor(u)].alive
        /\ KernelOf(kernels, KernelFor(u)).status = "busy"

\* C27: when execute suspends in on_output for an immediate result, it has
\* passed that result (a text that shows it), its request is not yet with the
\* worker and nothing else was forwarded; until the call resumes that stays
\* so, and the immediate result is never forwarded at a later position
C27_ForwardedFirst ==
    \A t \in Tasks :
        /\ task[t].pc = "ex_magic_out"
              => /\ task[t].sent = <<"magic">>
                 /\ \A k \in KernelIds : \A i \in DOMAIN worker[k].shell :
                       worker[k].shell[i] # task[t].eid
        /\ \A i \in DOMAIN task[t].sent :
              task[t].sent[i] \in {"magic", "[]"} => i = 1

\* line is a known block directive: it starts with the double sigil and its
\* first word is a key of the block-handler table
BlockDirective(line) ==
    startswith(line, <<"%", "%">>) /\ parts(line)[1] \in cell_magics

\* C28: for a submission whose first line is a known block directive, the
\* handler is called once, with the rest of that line as args and all
\* remaining lines, joined as they are, as body
C28_BlockBody ==
    returned.op = "process" =>
        LET ls == returned.arg IN
        BlockDirective(ls[1]) =>
            returned.val.calls =
                <<[name |-> parts(ls[1])[1],
                   args |-> strip(SubSeq(ls[1], Len(parts(ls[1])[1]) + 1,
                                         Len(ls[1]))),
                   body |-> join(Tail(ls))]>>

\* line starts with a single sigil and its first word is no key of the
\* line-handler table
UnknownDirective(line) ==
    /\ startswith(line, <<"%">>) /\ ~startswith(line, <<"%", "%">>)
    /\ parts(line)[1] \notin line_magics

\* C29: in a submission that does not start with a known block directive, a
\* line with an unknown single-sigil name is in the rewritten code as it was,
\* between the rewritten code of the lines before it and of the lines after
\* it, and the results and handler calls are those of the other lines
C29_UnknownKept ==
    returned.op = "process" =>
        LET ls == returned.arg
            out == returned.val
        IN
        ~BlockDirective(ls[1]) =>
            \A i \in DOMAIN ls :
                UnknownDirective(ls[i]) =>
                    LET pre == process_lines(NoLines, SubSeq(ls, 1, i - 1))
                        post == process_lines(NoLines,
                                              SubSeq(ls, i + 1, Len(ls)))
                    IN
                    /\ out.code = pre.code \o <<Kept(ls[i])>> \o post.code
                    /\ out.result
                          = combined_result(pre.results \o post.results)
                    /\ out.calls = pre.calls \o post.calls

\* the immediate results of the handler calls, in the order of the calls
RECURSIVE ResultsOf(_)
ResultsOf(calls) ==
    IF calls = <<>> THEN <<>>
    ELSE LET c == Head(calls) IN
         (IF c.name \in cell_magics
          THEN cell_magic(c.name, c.args, c.body).result
          ELSE line_magic(c.name, c.args).result) \o ResultsOf(Tail(calls))

\* C30: process returns no pre-execution result when no handler call gave an
\* immediate result, and else one result from which the coordinator reads
\* (executor.py 55) the immediate results of all calls in their order
C30_CombinedResult ==
    returned.op = "process" =>
        LET out == returned.val
            results == ResultsOf(out.calls)
        IN
        IF results = <<>>
        THEN out.result = <<>>
        ELSE /\ Len(out.result) = 1
             /\ get_outputs(out.result[1]) = results

\* the loop of process takes line for a directive: without the whitespace
\* around it, it starts with the sigil (magic.py 75-76; 58-61 for the first)
DirectiveLine(line) == startswith(strip(line), <<"%">>)

\* C31: for a submission without a directive line, process makes no handler
\* call, returns no immediate result, and the rewritten code is the
\* submission, line by line
C31_Identity ==
    returned.op = "process" =>
        LET ls == returned.arg
            out == returned.val
        IN
        (\A i \in DOMAIN ls : ~DirectiveLine(ls[i])) =>
            /\ out.code = [i \in DOMAIN ls |-> Kept(ls[i])]
            /\ out.result = <<>>
            /\ out.calls = <<>>

UnknownBlock(line) ==
    startswith(line, <<"%", "%">>) /\ parts(line)[1] \notin cell_magics

\* C39: when the first of the lines the processor splits a submission into
\* (magic.py 54) is a double-sigil directive without block handler, the
\* rewritten code is those lines as they are, there is no immediate result
\* and no handler is called
C39_UnknownBlock ==
    returned.op = "process" =>
        LET ls == split(strip(join(returned.arg)))
            out == returned.val
        IN
        UnknownBlock(ls[1]) =>
            /\ out.code = [i \in DOMAIN ls |-> Kept(ls[i])]
            /\ out.result = <<>>
            /\ out.calls = <<>>

\* the execute call of caller t consumes the event stream of a kernel that
\* is no longer in the pool
Orphaned(t) ==
    /\ task[t].pc \in {"ex_poll", "ex_got", "ex_sleep"}
    /\ task[t].kid \notin KernelKeys(kernels)

\* C33: an execute call whose kernel was shut down while it consumes the
\* event stream eventually returns
C33_OrphanReturns == Orphaned(Executor) ~> task[Executor].pc = "idle"

\* the execute call of caller t is in the stream loop for request r
Consuming(t, r) ==
    /\ task[t].pc \in {"ex_poll", "ex_got", "ex_sleep", "ex_out"}
    /\ task[t].eid = r

\* C34: a message a consumer has taken off the event channel of a kernel
\* belongs to its own request, or to a request no other consumer waits for:
\* no event, and no idle status, is taken from the consumer waiting for it
C34_Delivered ==
    \A t \in Tasks :
        task[t].pc = "ex_got" =>
            \/ task[t].msg.parent = task[t].eid
            \/ \A u \in Tasks \ {t} : ~Consuming(u, task[t].msg.parent)

\* an execute call on kernel k is between its entry and its return
Executing(k) ==
    \E t \in Tasks :
        /\ task[t].pc \in {"ex_magic_out", "ex_poll", "ex_got", "ex_sleep",
                            "ex_out"}
        /\ task[t].kid = k

\* C35: a kernel of the pool on which no execute call is in progress has
\* status IDLE (restart_kernel runs without suspending, so between two steps
\* no restart call is in progress)
C35_IdleAtRest ==
    \A i \in DOMAIN kernels :
        ~Executing(kernels[i].id) => kernels[i].status = "idle"

\* C36: the kernel records, the worker handles and the channels of the pool
\* have the same keys
C36_SameKeys ==
    /\ KernelKeys(kernels) = jupyter_managers
    /\ jupyter_managers = clients

\* C37: when restart_kernel(k) has just returned, no execution was submitted
\* to k since; an execute call on k that was in flight then and returns in
\* the next step leaves the reset counter of k at 0
C37_InFlightNotCounted ==
    [][(returned.op = "restart" /\ returned.ret = "ok")
          => \A t \in Tasks :
                (/\ task[t].pc \in {"ex_magic_out", "ex_poll", "ex_got",
                                     "ex_sleep", "ex_out"}
                 /\ task[t].kid = returned.arg
                 /\ task'[t].pc = "idle"
                 /\ returned.arg \in KernelKeys(kernels'))
                => KernelOf(kernels', returned.arg).execution_count = 0]_vars

\* the step is a call that reaches update_status or the reset of restart for
\* kernel k: execute entered or left, interrupt, restart
Touches(k) ==
    \/ returned'.op \in {"interrupt", "restart", "execute"} /\ returned'.arg = k
    \/ \E t \in Tasks :
          /\ task[t].pc = "idle" /\ task'[t].pc # "idle"
          /\ task'[t].kid = k /\ task'[t].eid # 0

\* C38: the last_activity of a kernel that stays in the pool never gets
\* smaller, and it changes only in a step of execute, interrupt or restart on
\* that kernel: get, the channel lookup, complete, inspect, the variables
\* call and every call on another kernel leave it as it is
C38_LastActivity ==
    [][\A i \in DOMAIN kernels :
          LET k == kernels[i].id IN
          k \in KernelKeys(kernels') =>
              /\ KernelOf(kernels', k).last_activity >= kernels[i].last_activity
              /\ KernelOf(kernels', k).last_activity # kernels[i].last_activity
                    => Touches(k)]_vars

\* a call of complete, inspect or the variables route has returned for a
\* kernel whose last_activity is older than the clock, beside a kernel with
\* newer activity
C38_Witness ==
    /\ returned.op \in {"complete", "inspect", "variables"}
    /\ returned.ret = "ok"
    /\ returned.arg \in KernelKeys(kernels)
    /\ KernelOf(kernels, returned.arg).last_activity < now
    /\ \E i \in DOMAIN kernels : kernels[i].last_activity = now
====
